---------------------------- MODULE Spec2Model ----------------------------
(***************************************************************************)
(* The allocation orchestrator of zboxcore/sdk/allocation.go as a state    *)
(* machine: the Allocation object, its two bounded work channels, the      *)
(* dispatcher goroutines, the sender goroutine every accepted upload or    *)
(* download spawns, the request tasks and their completion callbacks, and  *)
(* one action per public method.                                           *)
(*                                                                         *)
(* Strings are sequences of one-character strings, so that "begins with    *)
(* the separator" and "is empty" are computed, not looked up.  Masks are   *)
(* naturals read bit by bit.  A *Request is its index in reqs: the         *)
(* channels and the progress maps hold pointers, so they hold indices.     *)
(***************************************************************************)
EXTENDS Integers, Sequences, FiniteSets, TLC

\* ------------------------------------------------------------------ bounds
\* API calls (returned or in progress) in one behaviour of Spec and SpecRepair.
MaxCalls == 3
\* Upload/download requests built in one behaviour of Spec and SpecRepair.
MaxReqs == 1
\* API calls and requests built in one behaviour of SpecAsync.
MaxAsyncCalls == 4
MaxAsync == 2
\* API calls in one behaviour of SpecFull (enough to overfill a channel).
MaxFill == 12
\* InitAllocation calls in one behaviour of SpecLive.
MaxInits == 2
\* Bits of the masks SpecMasks draws.
MaskBits == 4
\* Largest shard and blobber count SpecQuorum draws.
MaxShards == 3

\* --------------------------------------------------------- program constants
\* make(chan *UploadRequest, 10) / make(chan *DownloadRequest, 10)
ChanCap == 10

\* ------------------------------------------------------------- input domains
\* (DataShards, ParityShards, len(Blobbers)) of the allocations explored:
\* by Spec, and by SpecRepair (the repair decision alone, on more blobbers).
Allocs ==
  { [D |-> 1, P |-> 1, N |-> 2],
    [D |-> 1, P |-> 0, N |-> 1] }
RepairAllocs ==
  { [D |-> 2, P |-> 2, N |-> 4],
    [D |-> 3, P |-> 1, N |-> 4],
    [D |-> 1, P |-> 2, N |-> 3] }
AsyncAllocs ==
  { [D |-> 1, P |-> 1, N |-> 2] }

\* Local paths handed to the upload family; os.Stat fails on the last one.
LocalFiles == { <<"a">>, <<"b">> }
LocalPaths == LocalFiles \cup { <<"x">> }

\* Remote paths: empty, relative, absolute.
RemotePaths == { <<>>, <<"r">>, <<"/", "r">> }

\* Lookup hashes handed to the auth-ticket operations.
LookupHashes == { <<>>, <<"h">> }

\* What os.Stat finds at the local path of a download: nothing, a regular
\* file, a directory without / with the destination file in it.
StatKinds == { "absent", "file", "dir", "dir_has_file" }

\* Auth tickets as handed in: enc says how far decoding gets (the empty
\* string, bad base64, bad JSON, a ticket), FilePathHash is the decoded field.
AuthTickets ==
  { [enc |-> "empty",      FilePathHash |-> <<>>],
    [enc |-> "bad_base64", FilePathHash |-> <<>>],
    [enc |-> "bad_json",   FilePathHash |-> <<>>],
    [enc |-> "ok",         FilePathHash |-> <<>>],
    [enc |-> "ok",         FilePathHash |-> <<"h">>] }

NoCons == [found |-> 0, ref |-> "none"]

\* File references a list read can select by quorum, with the fields the
\* metadata projection reads (and the two it must not take: the hash and the
\* size of the stored content), and the nil reference.
NilRef == [Type |-> "nil"]
FileRefs ==
  { [Type |-> "f", Name |-> "a.txt", Path |-> "/a.txt", LookupHash |-> "l1",
     Hash |-> "c1", ActualFileHash |-> "h1", Size |-> 3, ActualFileSize |-> 7,
     MimeType |-> "text/plain", EncryptedKey |-> "k1", CommitMetaTxns |-> <<"t1">>],
    [Type |-> "f", Name |-> "b.bin", Path |-> "/d/b.bin", LookupHash |-> "l2",
     Hash |-> "c2", ActualFileHash |-> "h2", Size |-> 5, ActualFileSize |-> 0,
     MimeType |-> "application/octet-stream", EncryptedKey |-> "",
     CommitMetaTxns |-> <<>>] }
\* The nil *ConsolidatedFileMeta.
NilMeta == [Type |-> "nil"]
\* Placeholders in the record of a call that takes no path / no ticket.
NoArg == <<"-">>
NoTicket == [enc |-> "none", FilePathHash |-> <<>>]

\* ------------------------------------------------------------ pure helpers
RECURSIVE Pow2(_)
Pow2(n) == IF n = 0 THEN 1 ELSE 2 * Pow2(n - 1)

\* A mutation of AllOnes: the decrement is missing.
AllOnes_NoDecrement(n) == Pow2(n)

\* uint32((1 << uint32(len(a.Blobbers))) - 1)
AllOnes(n) == Pow2(n) - 1

RECURSIVE AndNot(_, _)
\* (^found & mask) on unsigned words: bit i is set iff it is set in mask and
\* clear in found.
AndNot(found, mask) ==
  IF mask = 0 THEN 0
  ELSE (IF mask % 2 = 1 /\ found % 2 = 0 THEN 1 ELSE 0)
       + 2 * AndNot(found \div 2, mask \div 2)

RECURSIVE TrailingZeros32(_)
\* bits.TrailingZeros32: the number of trailing zero bits, 32 for 0.
TrailingZeros32(x) ==
  IF x = 0 THEN 32
  ELSE IF x % 2 = 1 THEN 0 ELSE 1 + TrailingZeros32(x \div 2)

RECURSIVE PopCount(_)
PopCount(x) == IF x = 0 THEN 0 ELSE (x % 2) + PopCount(x \div 2)

\* zboxutil.RemoteClean: an empty path cleans to ".", repeated separators
\* collapse, a trailing separator is dropped (the root stays).
RECURSIVE Squeeze(_)
Squeeze(p) ==
  IF Len(p) <= 1 THEN p
  ELSE IF p[1] = "/" /\ p[2] = "/" THEN Squeeze(Tail(p))
  ELSE <<p[1]>> \o Squeeze(Tail(p))

RemoteClean(p) ==
  LET s == Squeeze(p)
  IN  IF Len(s) = 0 THEN <<".">>
      ELSE IF Len(s) > 1 /\ s[Len(s)] = "/" THEN SubSeq(s, 1, Len(s) - 1)
      ELSE s

\* zboxutil.IsRemoteAbs: the path begins with the separator.
IsRemoteAbs(p) == Len(p) > 0 /\ p[1] = "/"

\* ------------------------------------------------------------------- state
VARIABLES
  sdkInitialized,       \* package-level flag read by isInitialized
  DataShards, ParityShards, Blobbers,   \* Blobbers is len(a.Blobbers)
  initialized, underRepair,
  chans,                \* chans[g]: the channels made by the g-th InitAllocation
  disp,                 \* disp[d]: the generation dispatcher d selects on
  uploadProgressMap,    \* local path -> request index, 0 when absent
  downloadProgressMap,  \* remote path / lookup hash -> request index
  reqs,                 \* every request built so far
  repairing,            \* local path -> RepairFile calls blocked in the list read
  commitTasks,          \* processCommitMetaRequest goroutines started
  ncalls,               \* API calls that have returned
  last                  \* what the last returned call did

vars == << sdkInitialized, DataShards, ParityShards, Blobbers, initialized,
           underRepair, chans, disp, uploadProgressMap, downloadProgressMap,
           reqs, repairing, commitTasks, ncalls, last >>

alloc == << sdkInitialized, DataShards, ParityShards, Blobbers >>

DownloadKeys == RemotePaths \cup LookupHashes

\* a.uploadChan / a.downloadChan: the channels of the latest InitAllocation.
gen == Len(chans)

\* What one InitAllocation makes: two empty channels and a live context.
NoChans == [up |-> <<>>, down |-> <<>>, done |-> FALSE]

RECURSIVE SumOver(_, _)
SumOver(f, S) ==
  IF S = {} THEN 0
  ELSE LET k == CHOOSE x \in S : TRUE IN f[k] + SumOver(f, S \ {k})

\* RepairFile calls that passed validation and wait for the list read.
NumRepairing == SumOver(repairing, LocalFiles)

\* The record of a returned call: the method, its error, whether it got as
\* far as a blobber (net), whether it started a goroutine (task), what the
\* list read of a repair answered (cons), and the path (arg) or auth ticket
\* it was given where a claim needs them.
Ret(op, err, net, task, cons, arg, ticket) ==
  [op |-> op, err |-> err, net |-> net, task |-> task, cons |-> cons,
   arg |-> arg, ticket |-> ticket, ref |-> NilRef, meta |-> NilMeta]

\* A call returns: it is counted and its outcome recorded.
ReturnWith(op, err, net, task, cons, arg, ticket) ==
  /\ ncalls' = ncalls + 1
  /\ last' = Ret(op, err, net, task, cons, arg, ticket)

Return(op, err, net, task, cons) ==
  ReturnWith(op, err, net, task, cons, NoArg, NoTicket)

\* A call that returns without touching the allocation or starting anything.
RejectWith(op, err, arg, ticket) ==
  /\ ReturnWith(op, err, FALSE, FALSE, NoCons, arg, ticket)
  /\ UNCHANGED << alloc, initialized, underRepair, chans, disp,
                  uploadProgressMap, downloadProgressMap, reqs, repairing,
                  commitTasks >>

Reject(op, err) == RejectWith(op, err, NoArg, NoTicket)

\* A freshly built Allocation (the JSON fields set, nothing else) of one of
\* the shapes in A.
InitWith(A) ==
  /\ sdkInitialized \in BOOLEAN
  /\ \E c \in A :
       /\ DataShards = c.D
       /\ ParityShards = c.P
       /\ Blobbers = c.N
  /\ initialized = FALSE
  /\ underRepair = FALSE
  /\ chans = <<>>
  /\ disp = <<>>
  /\ uploadProgressMap = [k \in LocalFiles |-> 0]
  /\ downloadProgressMap = [k \in DownloadKeys |-> 0]
  /\ reqs = <<>>
  /\ repairing = [k \in LocalFiles |-> 0]
  /\ commitTasks = 0
  /\ ncalls = 0
  /\ last = Ret("none", "nil", FALSE, FALSE, NoCons, NoArg, NoTicket)

Init == InitWith(Allocs)

\* ------------------------------------------------------- state and lifecycle
isInitialized == initialized /\ sdkInitialized

UnderRepair == underRepair

UpdateRepairStatus(value) ==
  /\ underRepair' = value
  /\ Return("UpdateRepairStatus", "nil", FALSE, FALSE, NoCons)
  /\ UNCHANGED << alloc, initialized, chans, disp, uploadProgressMap,
                  downloadProgressMap, reqs, repairing, commitTasks >>

\* Fresh channels, context and progress maps, one more dispatcher goroutine
\* (startWorker) selecting on the fresh channels.
InitAllocation ==
  /\ chans' = Append(chans, NoChans)
  /\ uploadProgressMap' = [k \in LocalFiles |-> 0]
  /\ downloadProgressMap' = [k \in DownloadKeys |-> 0]
  /\ disp' = Append(disp, gen + 1)
  /\ initialized' = TRUE
  /\ Return("InitAllocation", "nil", FALSE, TRUE, NoCons)
  /\ UNCHANGED << alloc, underRepair, reqs, repairing, commitTasks >>

\* --------------------------------------------------------------- upload family
\* A mutation of Spawn: the request is put on its channel by the call itself,
\* which then waits while the channel is full.
Spawn_Blocking(req) ==
  IF req.kind = "upload"
    THEN /\ Len(chans[gen].up) < ChanCap
         /\ chans' = [chans EXCEPT ![gen].up = Append(@, Len(reqs) + 1)]
         /\ reqs' = Append(reqs, [req EXCEPT !.snd = "reg"])
    ELSE /\ Len(chans[gen].down) < ChanCap
         /\ chans' = [chans EXCEPT ![gen].down = Append(@, Len(reqs) + 1)]
         /\ reqs' = Append(reqs, [req EXCEPT !.snd = "reg"])

\* go func() { a.uploadChan <- uploadReq; ... }(): the built request is left
\* to a goroutine of its own, which has not run when the call returns.
Spawn(req) ==
  /\ reqs' = Append(reqs, req)
  /\ UNCHANGED chans

\* A mutation of consensusThresh: the parity shards are taken for the data
\* shards.
consensusThresh_Parity ==
  [num |-> ParityShards * 100, den |-> DataShards + ParityShards]

\* (float32(a.DataShards) * 100) / float32(a.DataShards+a.ParityShards), kept
\* as the fraction it is the float32 of.
consensusThresh ==
  [num |-> DataShards * 100, den |-> DataShards + ParityShards]

\* float32(a.DataShards + a.ParityShards)
fullconsensus == DataShards + ParityShards

\* A mutation of isConsensusOk: the quorum must be met exactly.
isConsensusOk_Exact(count, full, thresh) ==
  count * 100 * thresh.den = thresh.num * full

\* The quorum rule of a request: float32(count*100)/fullconsensus >=
\* consensusThresh, compared here across the divisions; both sides are float32
\* quotients of small integers, which round the same way when the fractions
\* are equal and keep their order when they are not.
isConsensusOk(count, full, thresh) ==
  count * 100 * thresh.den >= thresh.num * full

\* listReq.getFileConsensusFromBlobbers(): no quorum reference (and then an
\* empty mask), or a reference with the mask of the blobbers that hold it,
\* which are enough for the quorum.
ConsensusOutcomes(n) ==
  { NoCons } \cup
  { [found |-> f, ref |-> "ref"] :
      f \in { m \in 1..AllOnes(n) :
                isConsensusOk(PopCount(m), fullconsensus, consensusThresh) } }

\* A mutation of RepairMask: the found mask is not complemented.
RepairMask_Found(found, uploadMask) == AndNot(AndNot(found, uploadMask), uploadMask)

\* A mutation of RepairMask: the found bits are added to the mask, not taken
\* out of it.
RepairMask_Adds(found, uploadMask) == uploadMask + AndNot(uploadMask, found)

\* uploadReq.uploadMask = (^found & uploadReq.uploadMask)
RepairMask(found, uploadMask) == AndNot(found, uploadMask)

\* uploadReq.fullconsensus - float32(bits.TrailingZeros32(uploadReq.uploadMask))
RepairFullConsensus(full, uploadMask) ==
  full - TrailingZeros32(uploadMask)

\* A mutation of RepairVerdict: the comparison with the full mask is missing.
RepairVerdict_NoFullCheck(cons, uploadMask) ==
  IF cons.ref = "none" THEN "file_not_found" ELSE "nil"

\* The two early returns of the repair branch, in the code's order.
RepairVerdict(cons, uploadMask) ==
  IF cons.ref = "none" THEN "file_not_found"
  ELSE IF cons.found = uploadMask THEN "no_repair_required"
  ELSE "nil"

\* Mutations of RepairStatusAfter: the status set before the list read is
\* judged, and the status never set.
RepairStatusAfter_Always(verdict) == TRUE
RepairStatusAfter_Never(verdict) == underRepair

\* a.UpdateRepairStatus(true) is reached only past both early returns.
RepairStatusAfter(verdict) == IF verdict = "nil" THEN TRUE ELSE underRepair

UploadRequest(localpath, isRepair, uploadMask, full) ==
  [ kind |-> "upload", key |-> localpath, isRepair |-> isRepair,
    mask |-> uploadMask, fullconsensus |-> full,
    consensusThresh |-> consensusThresh, canceled |-> FALSE,
    snd |-> "send", mx |-> 0, tsk |-> "new", commit |-> "none" ]

UploadName(isRepair) == IF isRepair THEN "RepairFile" ELSE "uploadOrUpdateFile"

\* uploadOrUpdateFile up to the hand-over of the request (or, for a repair,
\* up to the blocking list read).  isUpdate, thumbnailpath and encryption are
\* copied into request fields nothing in this file reads; a thumbnail that
\* cannot be stat-ed is dropped, not an error.
uploadOrUpdateFile(localpath, remotepath, isUpdate, thumbnailpath, encryption, isRepair) ==
  LET op == UploadName(isRepair) IN
  IF ~isInitialized THEN Reject(op, "notInitialized")
  ELSE IF UnderRepair THEN Reject(op, "underRepair")
  ELSE IF localpath \notin LocalFiles THEN Reject(op, "local_file_error")
  ELSE IF ~IsRemoteAbs(RemoteClean(remotepath)) THEN Reject(op, "invalid_path")
  ELSE IF isRepair
    THEN /\ repairing' = [repairing EXCEPT ![localpath] = @ + 1]
         /\ UNCHANGED << alloc, initialized, underRepair, chans, disp,
                         uploadProgressMap, downloadProgressMap, reqs,
                         commitTasks, ncalls, last >>
    ELSE /\ Spawn(UploadRequest(localpath, FALSE, AllOnes(Blobbers),
                                 fullconsensus))
         /\ Return(op, "nil", FALSE, TRUE, NoCons)
         /\ UNCHANGED << alloc, initialized, underRepair, disp,
                         uploadProgressMap, downloadProgressMap, repairing,
                         commitTasks >>

\* The rest of a RepairFile call: the list read answers with cons.
RepairFinish(localpath, cons) ==
  LET uploadMask == AllOnes(Blobbers)
      verdict    == RepairVerdict(cons, uploadMask)
      newMask    == RepairMask(cons.found, uploadMask)
  IN
  /\ repairing[localpath] > 0
  /\ repairing' = [repairing EXCEPT ![localpath] = @ - 1]
  /\ underRepair' = RepairStatusAfter(verdict)
  /\ IF verdict # "nil"
       THEN /\ Return("RepairFile", verdict, TRUE, FALSE, cons)
            /\ UNCHANGED << reqs, chans >>
       ELSE /\ Spawn(UploadRequest(localpath, TRUE, newMask,
                         RepairFullConsensus(fullconsensus, newMask)))
            /\ Return("RepairFile", "nil", TRUE, TRUE, cons)
  /\ UNCHANGED << alloc, initialized, disp, uploadProgressMap,
                  downloadProgressMap, commitTasks >>

UpdateFile(localpath, remotepath) ==
  uploadOrUpdateFile(localpath, remotepath, TRUE, <<>>, FALSE, FALSE)

UploadFile(localpath, remotepath) ==
  uploadOrUpdateFile(localpath, remotepath, FALSE, <<>>, FALSE, FALSE)

RepairFile(localpath, remotepath) ==
  uploadOrUpdateFile(localpath, remotepath, FALSE, <<>>, FALSE, TRUE)

UpdateFileWithThumbnail(localpath, remotepath, thumbnailpath) ==
  uploadOrUpdateFile(localpath, remotepath, TRUE, thumbnailpath, FALSE, FALSE)

UploadFileWithThumbnail(localpath, remotepath, thumbnailpath) ==
  uploadOrUpdateFile(localpath, remotepath, FALSE, thumbnailpath, FALSE, FALSE)

EncryptAndUpdateFile(localpath, remotepath) ==
  uploadOrUpdateFile(localpath, remotepath, TRUE, <<>>, TRUE, FALSE)

EncryptAndUploadFile(localpath, remotepath) ==
  uploadOrUpdateFile(localpath, remotepath, FALSE, <<>>, TRUE, FALSE)

EncryptAndUpdateFileWithThumbnail(localpath, remotepath, thumbnailpath) ==
  uploadOrUpdateFile(localpath, remotepath, TRUE, thumbnailpath, TRUE, FALSE)

EncryptAndUploadFileWithThumbnail(localpath, remotepath, thumbnailpath) ==
  uploadOrUpdateFile(localpath, remotepath, FALSE, thumbnailpath, TRUE, FALSE)

\* ------------------------------------------------------------- download family
DownloadRequest(key) ==
  [ kind |-> "download", key |-> key, isRepair |-> FALSE,
    mask |-> AllOnes(Blobbers), fullconsensus |-> fullconsensus,
    consensusThresh |-> consensusThresh, canceled |-> FALSE,
    snd |-> "send", mx |-> 0, tsk |-> "new", commit |-> "none" ]

\* The os.Stat block shared by both download builders: "nil" when the
\* download may go on.
LocalPathError(localPath) ==
  IF localPath = "file" THEN "local_path_not_dir"
  ELSE IF localPath = "dir_has_file" THEN "local_file_exists"
  ELSE "nil"

\* base64.StdEncoding.DecodeString, then json.Unmarshal: the empty string
\* decodes to no bytes, which is not JSON.
TicketDecodes(authTicket) == authTicket.enc = "ok"

\* The request is built and handed to a goroutine of its own.
AcceptDownload(op, key, ticket) ==
  /\ Spawn(DownloadRequest(key))
  /\ ReturnWith(op, "nil", FALSE, TRUE, NoCons, NoArg, ticket)
  /\ UNCHANGED << alloc, initialized, underRepair, disp,
                  uploadProgressMap, downloadProgressMap, repairing,
                  commitTasks >>

\* A mutation of downloadFile: the UnderRepair test is missing.
downloadFile_NoRepairCheck(localPath, remotePath, contentMode) ==
  IF ~isInitialized THEN Reject("downloadFile", "notInitialized")
  ELSE IF LocalPathError(localPath) # "nil"
    THEN Reject("downloadFile", LocalPathError(localPath))
  ELSE IF Blobbers <= 1 THEN Reject("downloadFile", "noBLOBBERS")
  ELSE AcceptDownload("downloadFile", remotePath, NoTicket)

\* localPath stands for what os.Stat finds there (StatKinds).
downloadFile(localPath, remotePath, contentMode) ==
  IF ~isInitialized THEN Reject("downloadFile", "notInitialized")
  ELSE IF UnderRepair THEN Reject("downloadFile", "underRepair")
  ELSE IF LocalPathError(localPath) # "nil"
    THEN Reject("downloadFile", LocalPathError(localPath))
  ELSE IF Blobbers <= 1 THEN Reject("downloadFile", "noBLOBBERS")
  ELSE AcceptDownload("downloadFile", remotePath, NoTicket)

DownloadFile(localPath, remotePath) ==
  downloadFile(localPath, remotePath, "full")

DownloadThumbnail(localPath, remotePath) ==
  downloadFile(localPath, remotePath, "thumbnail")

downloadFromAuthTicket(localPath, authTicket, remoteLookupHash, contentMode) ==
  LET op == "downloadFromAuthTicket" IN
  IF ~isInitialized THEN RejectWith(op, "notInitialized", NoArg, authTicket)
  ELSE IF UnderRepair THEN RejectWith(op, "underRepair", NoArg, authTicket)
  ELSE IF ~TicketDecodes(authTicket)
    THEN RejectWith(op, "auth_ticket_decode_error", NoArg, authTicket)
  ELSE IF LocalPathError(localPath) # "nil"
    THEN RejectWith(op, LocalPathError(localPath), NoArg, authTicket)
  ELSE IF Blobbers <= 1 THEN RejectWith(op, "noBLOBBERS", NoArg, authTicket)
  ELSE AcceptDownload(op, remoteLookupHash, authTicket)

DownloadThumbnailFromAuthTicket(localPath, authTicket, remoteLookupHash) ==
  downloadFromAuthTicket(localPath, authTicket, remoteLookupHash, "thumbnail")

DownloadFromAuthTicket(localPath, authTicket, remoteLookupHash) ==
  downloadFromAuthTicket(localPath, authTicket, remoteLookupHash, "full")

\* ------------------------------------------------------------------ goroutines
IsReq(i) == i \in 1..Len(reqs)

\* go func() { a.uploadChan <- uploadReq ...: the send blocks while the
\* channel of the moment holds ChanCap requests.
Send(i) ==
  /\ IsReq(i)
  /\ reqs[i].snd = "send"
  /\ gen > 0
  /\ IF reqs[i].kind = "upload"
       THEN /\ Len(chans[gen].up) < ChanCap
            /\ chans' = [chans EXCEPT ![gen].up = Append(@, i)]
       ELSE /\ Len(chans[gen].down) < ChanCap
            /\ chans' = [chans EXCEPT ![gen].down = Append(@, i)]
  /\ reqs' = [reqs EXCEPT ![i].snd = "reg"]
  /\ UNCHANGED << alloc, initialized, underRepair, disp, uploadProgressMap,
                  downloadProgressMap, repairing, commitTasks, ncalls, last >>

\* The mutex a holds at the moment is free: no sender goroutine is between
\* its Lock and its deferred Unlock.  reqs[i].mx is the generation of the
\* mutex sender i holds, 0 when it holds none.
MutexFree == \A j \in 1..Len(reqs) : reqs[j].mx # gen

\* A mutation of LockMutex: the goroutine goes for the mutex and the map
\* without having sent the request.
LockMutex_BeforeSend(i) ==
  /\ IsReq(i)
  /\ reqs[i].snd = "send"
  /\ MutexFree
  /\ reqs' = [reqs EXCEPT ![i].snd = "locked", ![i].mx = gen]
  /\ UNCHANGED << alloc, initialized, underRepair, chans, disp,
                  uploadProgressMap, downloadProgressMap, repairing,
                  commitTasks, ncalls, last >>

\* ... a.mutex.Lock(); defer a.mutex.Unlock(): the sender waits for the mutex
\* of the moment and takes it.
LockMutex(i) ==
  /\ IsReq(i)
  /\ reqs[i].snd = "reg"
  /\ MutexFree
  /\ reqs' = [reqs EXCEPT ![i].snd = "locked", ![i].mx = gen]
  /\ UNCHANGED << alloc, initialized, underRepair, chans, disp,
                  uploadProgressMap, downloadProgressMap, repairing,
                  commitTasks, ncalls, last >>

\* ... a.uploadProgressMap[localpath] = uploadReq }(): the entry is written
\* into the map of the moment and the mutex released.
Register(i) ==
  /\ IsReq(i)
  /\ reqs[i].snd = "locked"
  /\ reqs' = [reqs EXCEPT ![i].snd = "done", ![i].mx = 0]
  /\ IF reqs[i].kind = "upload"
       THEN /\ uploadProgressMap' = [uploadProgressMap EXCEPT ![reqs[i].key] = i]
            /\ UNCHANGED downloadProgressMap
       ELSE /\ downloadProgressMap' = [downloadProgressMap EXCEPT ![reqs[i].key] = i]
            /\ UNCHANGED uploadProgressMap
  /\ UNCHANGED << alloc, initialized, underRepair, chans, disp, repairing,
                  commitTasks, ncalls, last >>

\* A mutation of DispatchUpload: the dispatcher runs the request itself and
\* receives again only when no task is running.
DispatchUpload_Waits(d) ==
  /\ d \in 1..Len(disp)
  /\ disp[d] # 0
  /\ Len(chans[disp[d]].up) > 0
  /\ \A j \in 1..Len(reqs) : reqs[j].tsk # "running"
  /\ LET i == Head(chans[disp[d]].up) IN
       /\ reqs' = [reqs EXCEPT ![i].tsk = "running"]
       /\ chans' = [chans EXCEPT ![disp[d]].up = Tail(@)]
  /\ disp' = [disp EXCEPT ![d] = gen]
  /\ UNCHANGED << alloc, initialized, underRepair, uploadProgressMap,
                  downloadProgressMap, repairing, commitTasks, ncalls, last >>

\* dispatchWork, case uploadReq := <-a.uploadChan: the request gets a task of
\* its own, and the loop selects again on the channels a holds by then.
DispatchUpload(d) ==
  /\ d \in 1..Len(disp)
  /\ disp[d] # 0
  /\ Len(chans[disp[d]].up) > 0
  /\ LET i == Head(chans[disp[d]].up) IN
       /\ reqs' = [reqs EXCEPT ![i].tsk = "running"]
       /\ chans' = [chans EXCEPT ![disp[d]].up = Tail(@)]
  /\ disp' = [disp EXCEPT ![d] = gen]
  /\ UNCHANGED << alloc, initialized, underRepair, uploadProgressMap,
                  downloadProgressMap, repairing, commitTasks, ncalls, last >>

\* dispatchWork, case downloadReq := <-a.downloadChan.
DispatchDownload(d) ==
  /\ d \in 1..Len(disp)
  /\ disp[d] # 0
  /\ Len(chans[disp[d]].down) > 0
  /\ LET i == Head(chans[disp[d]].down) IN
       /\ reqs' = [reqs EXCEPT ![i].tsk = "running"]
       /\ chans' = [chans EXCEPT ![disp[d]].down = Tail(@)]
  /\ disp' = [disp EXCEPT ![d] = gen]
  /\ UNCHANGED << alloc, initialized, underRepair, uploadProgressMap,
                  downloadProgressMap, repairing, commitTasks, ncalls, last >>

\* dispatchWork, case <-ctx.Done(): the dispatcher returns.  Its ctx is the
\* one made by the InitAllocation that started it, whatever a.ctx is by now;
\* select takes any case that is ready, so this one competes with the two
\* receives while requests are waiting.
DispatchStop(d) ==
  /\ d \in 1..Len(disp)
  /\ disp[d] # 0
  /\ chans[d].done
  /\ disp' = [disp EXCEPT ![d] = 0]
  /\ UNCHANGED << alloc, initialized, underRepair, chans, uploadProgressMap,
                  downloadProgressMap, reqs, repairing, commitTasks, ncalls,
                  last >>

\* a.ctxCancelF(): the teardown cancels the allocation's context of the
\* moment.
ctxCancelF ==
  /\ gen > 0
  /\ ~chans[gen].done
  /\ chans' = [chans EXCEPT ![gen].done = TRUE]
  /\ UNCHANGED << alloc, initialized, underRepair, disp, uploadProgressMap,
                  downloadProgressMap, reqs, repairing, commitTasks, ncalls,
                  last >>

\* uploadReq.completedCallback / downloadReq.completedCallback: under the
\* mutex, the entry under the request's own key is deleted, whichever
\* request it refers to.
completedCallback(i) ==
  IF reqs[i].kind = "upload"
    THEN /\ uploadProgressMap' = [uploadProgressMap EXCEPT ![reqs[i].key] = 0]
         /\ UNCHANGED downloadProgressMap
    ELSE /\ downloadProgressMap' = [downloadProgressMap EXCEPT ![reqs[i].key] = 0]
         /\ UNCHANGED uploadProgressMap

\* The outcome of a request task that got count acknowledgements.
Commit(r, count) ==
  IF isConsensusOk(count, r.fullconsensus, r.consensusThresh)
    THEN "ok" ELSE "consensus_not_reached"

\* A request task (processUpload / processDownload) ends, count of the
\* blobbers of its mask having acknowledged: its quorum check decides the
\* outcome, and it runs its completion callback with the request's own key.
ProcessDone(i, count) ==
  /\ IsReq(i)
  /\ reqs[i].tsk = "running"
  /\ count \in 0..PopCount(reqs[i].mask)
  /\ MutexFree
  /\ reqs' = [reqs EXCEPT ![i].tsk = "finished", ![i].commit = Commit(reqs[i], count)]
  /\ completedCallback(i)
  /\ UNCHANGED << alloc, initialized, underRepair, chans, disp, repairing,
                  commitTasks, ncalls, last >>

\* ---------------------------------------------------------------------- cancel
\* Mutations of CancelUpload: a missing entry is no error, and a cancel that
\* also drops the entry from the progress map.
CancelUpload_NoError(localpath) ==
  IF localpath \in LocalFiles /\ uploadProgressMap[localpath] # 0
    THEN /\ reqs' = [reqs EXCEPT ![uploadProgressMap[localpath]].canceled = TRUE]
         /\ ReturnWith("CancelUpload", "nil", FALSE, FALSE, NoCons, localpath, NoTicket)
         /\ UNCHANGED << alloc, initialized, underRepair, chans, disp,
                         uploadProgressMap, downloadProgressMap, repairing,
                         commitTasks >>
    ELSE RejectWith("CancelUpload", "nil", localpath, NoTicket)

CancelUpload_Removes(localpath) ==
  IF localpath \in LocalFiles /\ uploadProgressMap[localpath] # 0
    THEN /\ reqs' = [reqs EXCEPT ![uploadProgressMap[localpath]].canceled = TRUE]
         /\ uploadProgressMap' = [uploadProgressMap EXCEPT ![localpath] = 0]
         /\ ReturnWith("CancelUpload", "nil", FALSE, FALSE, NoCons, localpath, NoTicket)
         /\ UNCHANGED << alloc, initialized, underRepair, chans, disp,
                         downloadProgressMap, repairing, commitTasks >>
    ELSE RejectWith("CancelUpload", "local_path_not_found", localpath, NoTicket)

CancelUpload(localpath) ==
  IF localpath \in LocalFiles /\ uploadProgressMap[localpath] # 0
    THEN /\ reqs' = [reqs EXCEPT ![uploadProgressMap[localpath]].canceled = TRUE]
         /\ ReturnWith("CancelUpload", "nil", FALSE, FALSE, NoCons, localpath, NoTicket)
         /\ UNCHANGED << alloc, initialized, underRepair, chans, disp,
                         uploadProgressMap, downloadProgressMap, repairing,
                         commitTasks >>
    ELSE RejectWith("CancelUpload", "local_path_not_found", localpath, NoTicket)

CancelDownload(remotepath) ==
  IF remotepath \in DownloadKeys /\ downloadProgressMap[remotepath] # 0
    THEN /\ reqs' = [reqs EXCEPT ![downloadProgressMap[remotepath]].canceled = TRUE]
         /\ ReturnWith("CancelDownload", "nil", FALSE, FALSE, NoCons, remotepath, NoTicket)
         /\ UNCHANGED << alloc, initialized, underRepair, chans, disp,
                         uploadProgressMap, downloadProgressMap, repairing,
                         commitTasks >>
    ELSE RejectWith("CancelDownload", "remote_path_not_found", remotepath, NoTicket)

\* ------------------------------------------------------- synchronous operations
\* What a synchronous operation answers: its error and whether it got as far
\* as a blobber.
Res(err, net) == [err |-> err, net |-> net]

\* The call returns res; nothing of the allocation changes, nothing starts.
Sync(op, res, ticket) ==
  /\ ReturnWith(op, res.err, res.net, FALSE, NoCons, NoArg, ticket)
  /\ UNCHANGED << alloc, initialized, underRepair, chans, disp,
                  uploadProgressMap, downloadProgressMap, reqs, repairing,
                  commitTasks >>

\* What the collaborators answer: a quorum reference or none; a protocol run
\* (ProcessDelete, ProcessRename, ProcessCopy, GetAuthTicket) ending in
\* success or in its error.
Refs == { NilRef } \cup FileRefs
ProcErrs == { "nil", "process_error" }

\* len(path) == 0, then RemoteClean and IsRemoteAbs.
PathError(path) ==
  IF Len(path) = 0 THEN "invalid_path"
  ELSE IF ~IsRemoteAbs(RemoteClean(path)) THEN "invalid_path"
  ELSE "nil"

\* len(at.FilePathHash) == 0 || len(lookupHash) == 0
TicketPathError(authTicket, lookupHash) ==
  IF Len(authTicket.FilePathHash) = 0 \/ Len(lookupHash) = 0
    THEN "invalid_path" ELSE "nil"

ListDirFromAuthTicketRes(authTicket, lookupHash, ref) ==
  IF ~isInitialized THEN Res("notInitialized", FALSE)
  ELSE IF ~TicketDecodes(authTicket) THEN Res("auth_ticket_decode_error", FALSE)
  ELSE IF TicketPathError(authTicket, lookupHash) # "nil"
    THEN Res("invalid_path", FALSE)
  ELSE IF ref # NilRef THEN Res("nil", TRUE)
  ELSE Res("list_request_failed", TRUE)

ListDirRes(path, ref) ==
  IF ~isInitialized THEN Res("notInitialized", FALSE)
  ELSE IF PathError(path) # "nil" THEN Res("invalid_path", FALSE)
  ELSE IF ref # NilRef THEN Res("nil", TRUE)
  ELSE Res("list_request_failed", TRUE)

\* A mutation of ConsolidatedFileMeta: the hash of the stored content is
\* taken for the hash of the file.
ConsolidatedFileMeta_StoredHash(ref, withKey) ==
  [ Type |-> ref.Type, Name |-> ref.Name, Hash |-> ref.Hash,
    LookupHash |-> ref.LookupHash, MimeType |-> ref.MimeType, Path |-> ref.Path,
    Size |-> ref.ActualFileSize,
    EncryptedKey |-> IF withKey THEN ref.EncryptedKey ELSE "",
    CommitMetaTxns |-> ref.CommitMetaTxns ]

\* result.Type = ref.Type ... result.CommitMetaTxns = ref.CommitMetaTxns: the
\* projection of the selected reference; GetFileMetaFromAuthTicket leaves
\* EncryptedKey at its zero value.
ConsolidatedFileMeta(ref, withKey) ==
  [ Type |-> ref.Type, Name |-> ref.Name, Hash |-> ref.ActualFileHash,
    LookupHash |-> ref.LookupHash, MimeType |-> ref.MimeType, Path |-> ref.Path,
    Size |-> ref.ActualFileSize,
    EncryptedKey |-> IF withKey THEN ref.EncryptedKey ELSE "",
    CommitMetaTxns |-> ref.CommitMetaTxns ]

\* A file-meta call returns res; the record keeps the reference the list
\* read selected and the metadata handed back.
SyncMeta(op, res, ticket, ref, withKey) ==
  /\ ncalls' = ncalls + 1
  /\ last' = [ Ret(op, res.err, res.net, FALSE, NoCons, NoArg, ticket) EXCEPT
                 !.ref = IF res.net THEN ref ELSE NilRef,
                 !.meta = IF res.err = "nil"
                            THEN ConsolidatedFileMeta(ref, withKey) ELSE NilMeta ]
  /\ UNCHANGED << alloc, initialized, underRepair, chans, disp,
                  uploadProgressMap, downloadProgressMap, reqs, repairing,
                  commitTasks >>

\* No isInitialized test here: the list read is the first thing done.
GetFileMetaRes(path, ref) ==
  IF ref # NilRef THEN Res("nil", TRUE)
  ELSE Res("file_meta_error", TRUE)

GetFileMetaFromAuthTicketRes(authTicket, lookupHash, ref) ==
  IF ~TicketDecodes(authTicket) THEN Res("auth_ticket_decode_error", FALSE)
  ELSE IF TicketPathError(authTicket, lookupHash) # "nil"
    THEN Res("invalid_path", FALSE)
  ELSE IF ref # NilRef THEN Res("nil", TRUE)
  ELSE Res("file_meta_error", TRUE)

GetFileStatsRes(path, ref) ==
  IF ~isInitialized THEN Res("notInitialized", FALSE)
  ELSE IF PathError(path) # "nil" THEN Res("invalid_path", FALSE)
  ELSE IF ref # NilRef THEN Res("nil", TRUE)
  ELSE Res("file_stats_request_failed", TRUE)

\* A mutation of DeleteFileRes: the UnderRepair test is missing.
DeleteFileRes_NoRepairCheck(path, perr) ==
  IF ~isInitialized THEN Res("notInitialized", FALSE)
  ELSE IF PathError(path) # "nil" THEN Res("invalid_path", FALSE)
  ELSE Res(perr, TRUE)

DeleteFileRes(path, perr) ==
  IF ~isInitialized THEN Res("notInitialized", FALSE)
  ELSE IF UnderRepair THEN Res("underRepair", FALSE)
  ELSE IF PathError(path) # "nil" THEN Res("invalid_path", FALSE)
  ELSE Res(perr, TRUE)

RenameObjectRes(path, destName, perr) ==
  IF ~isInitialized THEN Res("notInitialized", FALSE)
  ELSE IF UnderRepair THEN Res("underRepair", FALSE)
  ELSE IF PathError(path) # "nil" THEN Res("invalid_path", FALSE)
  ELSE Res(perr, TRUE)

CopyObjectRes(path, destPath, perr) ==
  IF ~isInitialized THEN Res("notInitialized", FALSE)
  ELSE IF UnderRepair THEN Res("underRepair", FALSE)
  ELSE IF Len(path) = 0 \/ Len(destPath) = 0 THEN Res("invalid_path", FALSE)
  ELSE IF ~IsRemoteAbs(RemoteClean(path)) THEN Res("invalid_path", FALSE)
  ELSE Res(perr, TRUE)

\* What one of the two calls MoveObject makes did: whether it was called, its
\* error, and whether it got as far as a blobber.
Called(res) == [called |-> TRUE, err |-> res.err, net |-> res.net]
NotCalled == [called |-> FALSE, err |-> "nil", net |-> FALSE]

\* A mutation of MoveObjectRes: the source is deleted whatever the copy
\* returned.
MoveObjectRes_DeletesAnyway(path, destPath, cerr, derr) ==
  LET copied  == CopyObjectRes(path, destPath, cerr)
      deleted == DeleteFileRes(path, derr)
  IN  [err |-> IF copied.err # "nil" THEN copied.err ELSE deleted.err,
       net |-> copied.net \/ deleted.net,
       copy |-> Called(copied), del |-> Called(deleted)]

\* CopyObject, and DeleteFile only after it returned no error; the answer
\* keeps what each of the two calls did.
MoveObjectRes(path, destPath, cerr, derr) ==
  LET copied  == CopyObjectRes(path, destPath, cerr)
      deleted == DeleteFileRes(path, derr)
  IN  IF copied.err # "nil"
        THEN [err |-> copied.err, net |-> copied.net,
              copy |-> Called(copied), del |-> NotCalled]
        ELSE [err |-> deleted.err, net |-> TRUE,
              copy |-> Called(copied), del |-> Called(deleted)]

\* MoveObject returns res; the record keeps what its two calls did.
SyncMove(res) ==
  /\ ncalls' = ncalls + 1
  /\ last' = [op |-> "MoveObject", err |-> res.err, net |-> res.net,
              task |-> FALSE, cons |-> NoCons, arg |-> NoArg,
              ticket |-> NoTicket, ref |-> NilRef, meta |-> NilMeta,
              copy |-> res.copy, del |-> res.del]
  /\ UNCHANGED << alloc, initialized, underRepair, chans, disp,
                  uploadProgressMap, downloadProgressMap, reqs, repairing,
                  commitTasks >>

\* The plain ticket is signed locally; the one for an encrypted file
\* (a recipient key is given) is built by the share request's other path.
GetAuthTicketRes(path, refereeEncryptionPublicKey, perr) ==
  IF ~isInitialized THEN Res("notInitialized", FALSE)
  ELSE IF PathError(path) # "nil" THEN Res("invalid_path", FALSE)
  ELSE Res(perr, Len(refereeEncryptionPublicKey) > 0)

ListDirFromAuthTicket(authTicket, lookupHash) ==
  \E ref \in Refs :
    Sync("ListDirFromAuthTicket", ListDirFromAuthTicketRes(authTicket, lookupHash, ref), authTicket)

ListDir(path) ==
  \E ref \in Refs : Sync("ListDir", ListDirRes(path, ref), NoTicket)

GetFileMeta(path) ==
  \E ref \in Refs :
    SyncMeta("GetFileMeta", GetFileMetaRes(path, ref), NoTicket, ref, TRUE)

GetFileMetaFromAuthTicket(authTicket, lookupHash) ==
  \E ref \in Refs :
    SyncMeta("GetFileMetaFromAuthTicket",
             GetFileMetaFromAuthTicketRes(authTicket, lookupHash, ref),
             authTicket, ref, FALSE)

GetFileStats(path) ==
  \E ref \in Refs : Sync("GetFileStats", GetFileStatsRes(path, ref), NoTicket)

DeleteFile(path) ==
  \E perr \in ProcErrs : Sync("DeleteFile", DeleteFileRes(path, perr), NoTicket)

RenameObject(path, destName) ==
  \E perr \in ProcErrs : Sync("RenameObject", RenameObjectRes(path, destName, perr), NoTicket)

CopyObject(path, destPath) ==
  \E perr \in ProcErrs : Sync("CopyObject", CopyObjectRes(path, destPath, perr), NoTicket)

MoveObject(path, destPath) ==
  \E cerr \in ProcErrs, derr \in ProcErrs :
    SyncMove(MoveObjectRes(path, destPath, cerr, derr))

GetAuthTicket(path, refereeEncryptionPublicKey) ==
  \E perr \in ProcErrs :
    Sync("GetAuthTicket", GetAuthTicketRes(path, refereeEncryptionPublicKey, perr), NoTicket)

GetAuthTicketForShare(path) == GetAuthTicket(path, <<>>)

\* Metadata a caller of CommitMetaTransaction hands in: none, or some.
GivenMeta ==
  [ Type |-> "f", Name |-> "c.txt", Hash |-> "h3", LookupHash |-> "l3",
    MimeType |-> "text/plain", Path |-> "/c.txt", Size |-> 1,
    EncryptedKey |-> "", CommitMetaTxns |-> <<>> ]
FileMetas == { NilMeta, GivenMeta }

\* What a file-meta call hands back with the answer res.
MetaOf(res, ref, withKey) ==
  [ err |-> res.err, net |-> res.net,
    meta |-> IF res.err = "nil" THEN ConsolidatedFileMeta(ref, withKey) ELSE NilMeta ]

\* The metadata CommitMetaTransaction ends up with: the caller's, or what
\* GetFileMeta / GetFileMetaFromAuthTicket resolve; nil metadata stays nil
\* when neither a path nor a ticket is given.
CommitMetaRes(path, authTicket, lookupHash, fileMeta, ref) ==
  IF ~isInitialized THEN [err |-> "notInitialized", net |-> FALSE, meta |-> NilMeta]
  ELSE IF UnderRepair THEN [err |-> "underRepair", net |-> FALSE, meta |-> NilMeta]
  ELSE IF fileMeta # NilMeta THEN [err |-> "nil", net |-> FALSE, meta |-> fileMeta]
  ELSE IF Len(path) > 0 THEN MetaOf(GetFileMetaRes(path, ref), ref, TRUE)
  ELSE IF authTicket.enc # "empty"
    THEN MetaOf(GetFileMetaFromAuthTicketRes(authTicket, lookupHash, ref), ref, FALSE)
  ELSE [err |-> "nil", net |-> FALSE, meta |-> NilMeta]

\* go req.processCommitMetaRequest() once the metadata step raised no error;
\* the record keeps the metadata the request was built with.
CommitMetaTransaction(path, authTicket, lookupHash, fileMeta) ==
  \E ref \in IF fileMeta = NilMeta THEN Refs ELSE { NilRef } :
    LET res == CommitMetaRes(path, authTicket, lookupHash, fileMeta, ref) IN
    /\ ncalls' = ncalls + 1
    /\ last' = [ Ret("CommitMetaTransaction", res.err, res.net, res.err = "nil",
                     NoCons, NoArg, NoTicket) EXCEPT !.meta = res.meta ]
    /\ commitTasks' = IF res.err = "nil" THEN commitTasks + 1 ELSE commitTasks
    /\ UNCHANGED << alloc, initialized, underRepair, chans, disp,
                    uploadProgressMap, downloadProgressMap, reqs, repairing >>

\* ---------------------------------------------------------------- specification
\* Every public method.  The three upload entry points and the two download
\* builders get every input of the domains above; the thumbnail and
\* encrypted variants, which differ from them in flags the request only
\* carries, get every local path (or stat result) with an absolute remote
\* path, a thumbnail and a ticket that decodes.
UploadCall ==
  \/ \E l \in LocalPaths, r \in RemotePaths :
       \/ UpdateFile(l, r)
       \/ UploadFile(l, r)
       \/ RepairFile(l, r)
  \/ \E l \in LocalPaths :
       LET r == <<"/", "r">>
           t == <<"t">>
       IN  \/ EncryptAndUpdateFile(l, r)
           \/ EncryptAndUploadFile(l, r)
           \/ UpdateFileWithThumbnail(l, r, t)
           \/ UploadFileWithThumbnail(l, r, t)
           \/ EncryptAndUpdateFileWithThumbnail(l, r, t)
           \/ EncryptAndUploadFileWithThumbnail(l, r, t)

DownloadCall ==
  \E s \in StatKinds :
    \/ \E r \in RemotePaths : DownloadFile(s, r)
    \/ \E t \in AuthTickets, h \in LookupHashes : DownloadFromAuthTicket(s, t, h)
    \/ DownloadThumbnail(s, <<"/", "r">>)
    \/ \E t \in { a \in AuthTickets : TicketDecodes(a) } :
         DownloadThumbnailFromAuthTicket(s, t, <<"h">>)

SyncCall ==
  \/ \E p \in RemotePaths :
       \/ ListDir(p)
       \/ GetFileMeta(p)
       \/ GetFileStats(p)
       \/ DeleteFile(p)
       \/ GetAuthTicketForShare(p)
       \/ \E k \in LookupHashes : GetAuthTicket(p, k)
       \/ \E q \in RemotePaths :
            \/ RenameObject(p, q)
            \/ CopyObject(p, q)
            \/ MoveObject(p, q)
  \/ \E t \in AuthTickets, h \in LookupHashes :
       \/ ListDirFromAuthTicket(t, h)
       \/ GetFileMetaFromAuthTicket(t, h)
       \/ \E p \in { <<>>, <<"/", "r">> }, m \in FileMetas :
            CommitMetaTransaction(p, t, h, m)

CancelCall ==
  \/ \E l \in LocalPaths : CancelUpload(l)
  \/ \E r \in DownloadKeys : CancelDownload(r)

StateCall ==
  \/ InitAllocation
  \/ \E v \in BOOLEAN : UpdateRepairStatus(v)

\* Steps of the goroutines the calls leave behind.
Background ==
  \/ \E l \in LocalFiles, c \in ConsensusOutcomes(Blobbers) : RepairFinish(l, c)
  \/ \E i \in 1..Len(reqs) : Send(i) \/ LockMutex(i) \/ Register(i)
                              \/ \E c \in 0..Blobbers : ProcessDone(i, c)
  \/ \E d \in 1..Len(disp) : DispatchUpload(d) \/ DispatchDownload(d)

\* The bounds: a call is made while fewer than MaxCalls were, and accepted
\* only while it leaves at most MaxReqs requests built or being built.
CanCall == ncalls + NumRepairing < MaxCalls
Built == Len(reqs) + NumRepairing

Next ==
  \/ CanCall /\ (UploadCall \/ DownloadCall) /\ Built' <= MaxReqs
  \/ CanCall /\ (SyncCall \/ CancelCall \/ StateCall)
  \/ Background

Spec == Init /\ [][Next]_vars

\* The repair decision alone, on the allocations of RepairAllocs: repairs are
\* requested, answered by the list read, handed over and processed, and the
\* caller sets and clears the repair status.
InitRepair == InitWith(RepairAllocs)

NextRepair ==
  \/ /\ CanCall
     /\ \E l \in LocalPaths, r \in RemotePaths : RepairFile(l, r) \/ UploadFile(l, r)
     /\ Built' <= MaxReqs
  \/ CanCall /\ StateCall
  \/ Background

SpecRepair == InitRepair /\ [][NextRepair]_vars

\* The asynchronous path alone, with more requests in flight: uploads and
\* downloads that pass validation, their senders, the dispatchers, the
\* tasks, and the cancels.
InitAsync == InitWith(AsyncAllocs)

CanCallAsync == ncalls < MaxAsyncCalls

NextAsync ==
  \/ /\ CanCallAsync
     /\ \/ \E l \in LocalFiles : UploadFile(l, <<"/", "r">>)
        \/ \E r \in { <<"/", "r">> } : DownloadFile("absent", r)
     /\ Built' <= MaxAsync
  \/ CanCallAsync /\ (CancelCall \/ InitAllocation)
  \/ \E i \in 1..Len(reqs) : Send(i) \/ LockMutex(i) \/ Register(i)
                              \/ \E c \in 0..Blobbers : ProcessDone(i, c)
  \/ \E d \in 1..Len(disp) : DispatchUpload(d) \/ DispatchDownload(d)

SpecAsync == InitAsync /\ [][NextAsync]_vars

\* The channels filled up: one InitAllocation, then uploads and downloads
\* that pass validation, each made once the senders of the earlier ones have
\* gone as far as they can; no dispatcher is scheduled, so nothing is taken
\* off the channels.
SendersQuiet ==
  \A i \in 1..Len(reqs) :
    /\ reqs[i].snd \notin { "reg", "locked" }
    /\ reqs[i].snd = "send" =>
         Len(IF reqs[i].kind = "upload" THEN chans[gen].up ELSE chans[gen].down)
           >= ChanCap

NextFull ==
  \/ ncalls < MaxFill /\ gen = 0 /\ InitAllocation
  \/ /\ ncalls < MaxFill
     /\ SendersQuiet
     /\ \/ UploadFile(<<"a">>, <<"/", "r">>)
        \/ DownloadFile("absent", <<"/", "r">>)
  \/ \E i \in 1..Len(reqs) : Send(i) \/ LockMutex(i) \/ Register(i)

SpecFull == InitAsync /\ [][NextFull]_vars

\* The dispatcher and the teardown: one InitAllocation, uploads and downloads
\* that pass validation, their senders and tasks, the dispatcher with its
\* three select cases, and the cancellation of the context.
NextCtx ==
  \/ CanCallAsync /\ gen = 0 /\ InitAllocation
  \/ /\ CanCallAsync
     /\ \/ \E l \in LocalFiles : UploadFile(l, <<"/", "r">>)
        \/ DownloadFile("absent", <<"/", "r">>)
     /\ Built' <= MaxAsync
  \/ ctxCancelF
  \/ \E i \in 1..Len(reqs) : Send(i) \/ LockMutex(i) \/ Register(i)
                              \/ \E c \in 0..Blobbers : ProcessDone(i, c)
  \/ \E d \in 1..Len(disp) : DispatchUpload(d) \/ DispatchDownload(d) \/ DispatchStop(d)

SpecCtx == InitAsync /\ [][NextCtx]_vars

\* The asynchronous path under fair scheduling: the calls are up to the
\* caller, but every goroutine that can take its next step (a sender, a
\* dispatcher, a request task) takes it in the end.  The context is never
\* cancelled here.
NextLive ==
  \/ CanCallAsync /\ gen < MaxInits /\ InitAllocation
  \/ /\ CanCallAsync
     /\ \/ \E l \in LocalFiles : UploadFile(l, <<"/", "r">>)
        \/ DownloadFile("absent", <<"/", "r">>)
     /\ Built' <= MaxAsync
  \/ \E i \in 1..Len(reqs) : Send(i) \/ LockMutex(i) \/ Register(i)
                              \/ \E c \in 0..Blobbers : ProcessDone(i, c)
  \/ \E d \in 1..Len(disp) : DispatchUpload(d) \/ DispatchDownload(d)

Fairness ==
  /\ \A i \in 1..MaxAsync :
       /\ WF_vars(Send(i))
       /\ WF_vars(LockMutex(i))
       /\ WF_vars(Register(i))
       /\ WF_vars(\E c \in 0..Blobbers : ProcessDone(i, c))
  /\ \A d \in 1..MaxInits :
       /\ WF_vars(DispatchUpload(d))
       /\ WF_vars(DispatchDownload(d))

SpecLive == InitAsync /\ [][NextLive]_vars /\ Fairness

\* Repairs requested by several callers at once: one InitAllocation, then
\* RepairFile calls that may overlap (each blocks in its list read while the
\* others go on), the answers of the list reads, the caller clearing the
\* repair status (so that the status is set by a detected repair only), and
\* the goroutines of the requests built.
CanCallRepairs == ncalls + NumRepairing < MaxAsyncCalls

NextRepairs ==
  \/ CanCallRepairs /\ gen = 0 /\ InitAllocation
  \/ /\ CanCallRepairs
     /\ \E l \in LocalFiles : RepairFile(l, <<"/", "r">>)
     /\ Built' <= MaxAsync
  \/ CanCallRepairs /\ UpdateRepairStatus(FALSE)
  \/ \E l \in LocalFiles, c \in ConsensusOutcomes(Blobbers) : RepairFinish(l, c)
  \/ \E i \in 1..Len(reqs) : Send(i) \/ LockMutex(i) \/ Register(i)
                              \/ \E c \in 0..Blobbers : ProcessDone(i, c)
  \/ \E d \in 1..Len(disp) : DispatchUpload(d)

SpecRepairs == InitAsync /\ [][NextRepairs]_vars

\* An allocation on which nothing has been called: every variable but the
\* allocation's shape and the record of the last step.
Untouched ==
  /\ initialized = FALSE
  /\ underRepair = FALSE
  /\ chans = <<>>
  /\ disp = <<>>
  /\ uploadProgressMap = [k \in LocalFiles |-> 0]
  /\ downloadProgressMap = [k \in DownloadKeys |-> 0]
  /\ reqs = <<>>
  /\ repairing = [k \in LocalFiles |-> 0]
  /\ commitTasks = 0
  /\ ncalls = 0

\* The repair complement alone, as a function of two masks: last holds a
\* full mask, a found mask and the mask worked on, which starts as the found
\* mask and is complemented against the full mask, twice.
InitMasks ==
  /\ sdkInitialized = TRUE
  /\ DataShards = 1 /\ ParityShards = 1 /\ Blobbers = 2
  /\ Untouched
  /\ \E full \in 0..AllOnes(MaskBits), found \in 0..AllOnes(MaskBits) :
       last = [op |-> "complement", full |-> full, found |-> found,
               out |-> found, steps |-> 0]

Complement ==
  /\ last.steps < 2
  /\ last' = [last EXCEPT !.out = RepairMask(@, last.full), !.steps = @ + 1]
  /\ UNCHANGED << alloc, initialized, underRepair, chans, disp,
                  uploadProgressMap, downloadProgressMap, reqs, repairing,
                  commitTasks, ncalls >>

NextMasks == Complement

SpecMasks == InitMasks /\ [][NextMasks]_vars

\* The quorum rule alone, as a function of the acknowledgement count: on an
\* allocation of any shape (some shard, some blobber) last collects the
\* verdicts of the rule for the counts 0, 1, ... up to the blobber count.
InitQuorum ==
  /\ sdkInitialized = TRUE
  /\ DataShards \in 0..MaxShards
  /\ ParityShards \in 0..MaxShards
  /\ DataShards + ParityShards > 0
  /\ Blobbers \in 1..(MaxShards + 1)
  /\ Untouched
  /\ last = [op |-> "quorum", count |-> 0, oks |-> << >>]

CheckQuorum ==
  /\ last.count <= Blobbers
  /\ last' = [last EXCEPT
                !.oks = Append(@, isConsensusOk(last.count, Blobbers, consensusThresh)),
                !.count = @ + 1]
  /\ UNCHANGED << alloc, initialized, underRepair, chans, disp,
                  uploadProgressMap, downloadProgressMap, reqs, repairing,
                  commitTasks, ncalls >>

NextQuorum == CheckQuorum

SpecQuorum == InitQuorum /\ [][NextQuorum]_vars

\* ---------------------------------------------------------------------- claims
\* A step in which a call returns; one in which a call both starts and
\* returns (the return of a RepairFile that was waiting for its list read is
\* not one).
CallStep == ncalls' = ncalls + 1
NewCall == CallStep /\ repairing' = repairing

\* No RepairFile call enters its list read in this step.
NoRepairStarts == \A l \in LocalFiles : repairing'[l] <= repairing[l]

\* The returned call did nothing but return: no request built or enqueued,
\* no goroutine started, no blobber contacted.
DidNothing ==
  /\ ~last'.net
  /\ ~last'.task
  /\ reqs' = reqs
  /\ chans' = chans
  /\ commitTasks' = commitTasks
  /\ uploadProgressMap' = uploadProgressMap
  /\ downloadProgressMap' = downloadProgressMap

MutatingOps ==
  { "uploadOrUpdateFile", "RepairFile", "DeleteFile", "RenameObject",
    "CopyObject", "MoveObject", "CommitMetaTransaction" }

GuardedOps ==
  MutatingOps \cup
  { "downloadFile", "downloadFromAuthTicket", "ListDir", "ListDirFromAuthTicket",
    "GetFileMeta", "GetFileMetaFromAuthTicket", "GetFileStats", "GetAuthTicket" }

RejectsMutating(err) ==
  /\ NoRepairStarts
  /\ (NewCall /\ last'.op \in MutatingOps) =>
       (last'.err = err /\ DidNothing)

\* C1 as stated: while underRepair is true, every new mutating operation
\* returns the UnderRepair error, enqueues no request, starts no task and
\* contacts no blobber.
C1_Original == [][underRepair => RejectsMutating("underRepair")]_vars

\* C1, amended: while underRepair is true, every new mutating operation is
\* rejected, enqueues no request, starts no task and contacts no blobber; the
\* error is UnderRepair when isInitialized() holds and NotInitialized when
\* it does not, the initialization test coming first.
C1_UnderRepairRejects ==
  [][underRepair =>
       RejectsMutating(IF isInitialized THEN "underRepair" ELSE "notInitialized")]_vars

\* A mutating call was turned away with UnderRepair while a repair request
\* detected by RepairFile is outstanding.
C1_Witness ==
  /\ underRepair
  /\ isInitialized
  /\ last.op \in MutatingOps
  /\ last.err = "underRepair"
  /\ \E i \in 1..Len(reqs) : reqs[i].isRepair

\* C2: every public operation invoked on an allocation whose InitAllocation
\* has not completed returns the NotInitialized error, and enqueues no
\* request, starts no task and contacts no blobber.
C2_NotInitializedRejects ==
  [][~initialized =>
       /\ NoRepairStarts
       /\ (NewCall /\ last'.op \in GuardedOps) =>
            (last'.err = "notInitialized" /\ DidNothing)]_vars

\* C3: the upload request of a repair on N = D+P blobbers with found mask F
\* has fullconsensus = N - popcount(F); F is read back from the request's
\* upload mask, which is its complement in the all-ones mask.
C3_ShrunkByFound ==
  \A i \in 1..Len(reqs) :
    reqs[i].isRepair =>
      reqs[i].fullconsensus =
        Blobbers - PopCount(AndNot(reqs[i].mask, AllOnes(Blobbers)))

\* C4: a RepairFile call returns NoRepairNeeded if and only if its list read
\* returned a found mask equal to the all-ones mask of the blobber count; and
\* then nothing is enqueued and underRepair is unchanged.
C4_NoRepairIffFull ==
  [][(CallStep /\ last'.op = "RepairFile") =>
       /\ (last'.err = "no_repair_required") <=>
            (last'.net /\ last'.cons.found = AllOnes(Blobbers))
       /\ (last'.err = "no_repair_required") =>
            (/\ ~last'.task
             /\ reqs' = reqs
             /\ chans' = chans
             /\ uploadProgressMap' = uploadProgressMap
             /\ underRepair' = underRepair)]_vars

\* A repair was asked for on four blobbers that all hold the object.
C4_Witness ==
  /\ last.op = "RepairFile"
  /\ last.err = "no_repair_required"
  /\ Blobbers = 4
  /\ last.cons.found = AllOnes(Blobbers)
  /\ reqs = <<>>

\* C5: a RepairFile call whose list read finds no quorum object returns
\* NotFound, leaves underRepair as it was, enqueues no upload request and
\* registers nothing in the upload progress map.
C5_NotFoundFrame ==
  [][(CallStep /\ last'.op = "RepairFile" /\ last'.net /\ last'.cons.ref = "none") =>
       /\ last'.err = "file_not_found"
       /\ underRepair' = underRepair
       /\ reqs' = reqs
       /\ chans' = chans
       /\ uploadProgressMap' = uploadProgressMap]_vars

\* A repair of a missing object has returned NotFound on an allocation that
\* is not under repair.
C5_Witness ==
  /\ last.op = "RepairFile"
  /\ last.err = "file_not_found"
  /\ last.net
  /\ ~underRepair
  /\ reqs = <<>>

\* C6: a RepairFile call that detects a repair returns with underRepair
\* true, and underRepair stays true in every later step except a call of
\* UpdateRepairStatus: no completion, no cancel, no other operation clears it.
C6_RepairStatusSticks ==
  [][/\ (CallStep /\ last'.op = "RepairFile" /\ last'.err = "nil") => underRepair'
     /\ (underRepair /\ ~underRepair') =>
          (NewCall /\ last'.op = "UpdateRepairStatus")]_vars

\* The repair upload was cancelled and has completed, and the allocation is
\* still under repair.
C6_Witness ==
  /\ underRepair
  /\ \E i \in 1..Len(reqs) :
       /\ reqs[i].isRepair
       /\ reqs[i].canceled
       /\ reqs[i].tsk = "finished"

TicketOps ==
  { "ListDirFromAuthTicket", "GetFileMetaFromAuthTicket", "downloadFromAuthTicket" }

\* C7: a list, file-meta or download operation given an auth ticket whose
\* decoded file path hash is empty returns an error, and neither contacts a
\* blobber nor builds a download request.
C7_EmptyHashRejected ==
  [][(NewCall /\ last'.op \in TicketOps /\ last'.ticket.enc = "ok"
        /\ Len(last'.ticket.FilePathHash) = 0) =>
       (last'.err # "nil" /\ ~last'.net /\ reqs' = reqs)]_vars

CancelFrame ==
  /\ uploadProgressMap' = uploadProgressMap
  /\ downloadProgressMap' = downloadProgressMap
  /\ chans' = chans
  /\ disp' = disp
  /\ underRepair' = underRepair

UploadEntry(k) == IF k \in LocalFiles THEN uploadProgressMap[k] ELSE 0
DownloadEntry(k) == IF k \in DownloadKeys THEN downloadProgressMap[k] ELSE 0

\* C8: CancelUpload (CancelDownload) on a path with no entry in the progress
\* map returns a not-found error and changes nothing: progress maps, queues,
\* every request's cancel flag and underRepair.
C8_CancelUnknownNoEffect ==
  [][/\ (NewCall /\ last'.op = "CancelUpload" /\ UploadEntry(last'.arg) = 0) =>
          (last'.err = "local_path_not_found" /\ CancelFrame /\ reqs' = reqs)
     /\ (NewCall /\ last'.op = "CancelDownload" /\ DownloadEntry(last'.arg) = 0) =>
          (last'.err = "remote_path_not_found" /\ CancelFrame /\ reqs' = reqs)]_vars

\* An upload is registered under one path, and a cancel of another path has
\* returned not-found, leaving the registered request uncancelled.
C8_Witness ==
  /\ last.op = "CancelUpload"
  /\ last.err = "local_path_not_found"
  /\ \E k \in LocalFiles :
       /\ k # last.arg
       /\ uploadProgressMap[k] # 0
       /\ ~reqs[uploadProgressMap[k]].canceled

\* C9: CancelUpload (CancelDownload) on a registered key returns success and
\* sets the cancel flag of exactly the request registered under the key: the
\* entry stays in the progress map, the context and the queues are untouched,
\* the request's task goes on, and every other request is unchanged.
C9_CancelSetsFlagOnly ==
  [][/\ (NewCall /\ last'.op = "CancelUpload" /\ UploadEntry(last'.arg) # 0) =>
          /\ last'.err = "nil"
          /\ reqs' = [reqs EXCEPT ![UploadEntry(last'.arg)].canceled = TRUE]
          /\ CancelFrame
     /\ (NewCall /\ last'.op = "CancelDownload" /\ DownloadEntry(last'.arg) # 0) =>
          /\ last'.err = "nil"
          /\ reqs' = [reqs EXCEPT ![DownloadEntry(last'.arg)].canceled = TRUE]
          /\ CancelFrame]_vars

\* Two uploads are registered and running; the cancel of one has set its
\* flag, left its entry in the map and left the other one alone.
C9_Witness ==
  /\ last.op = "CancelUpload"
  /\ last.err = "nil"
  /\ \E i, j \in 1..Len(reqs) :
       /\ i # j
       /\ reqs[i].kind = "upload" /\ reqs[j].kind = "upload"
       /\ uploadProgressMap[last.arg] = i
       /\ reqs[i].canceled /\ reqs[i].tsk = "running"
       /\ uploadProgressMap[reqs[j].key] = j
       /\ ~reqs[j].canceled /\ reqs[j].tsk = "running"

AsyncOps == { "uploadOrUpdateFile", "downloadFile" }

\* C10: a non-repair upload or a download call that passes validation
\* returns success with its request neither queued nor dispatched, and is
\* never kept waiting: it can return whatever the channels hold, also when
\* they are full and nothing is taken off them.
C10_ReturnsAtOnce ==
  /\ [][(NewCall /\ last'.op \in AsyncOps /\ last'.err = "nil") =>
          /\ Len(reqs') = Len(reqs) + 1
          /\ reqs'[Len(reqs')].snd = "send"
          /\ reqs'[Len(reqs')].tsk = "new"
          /\ SubSeq(reqs', 1, Len(reqs)) = reqs
          /\ chans' = chans
          /\ uploadProgressMap' = uploadProgressMap
          /\ downloadProgressMap' = downloadProgressMap]_vars
  /\ []((isInitialized /\ ~underRepair) =>
          /\ ENABLED UploadFile(<<"a">>, <<"/", "r">>)
          /\ ENABLED DownloadFile("absent", <<"/", "r">>))

\* The upload channel holds ChanCap requests, none has been dispatched, and
\* one more upload call has returned success; its sender is blocked.
C10_Witness ==
  /\ gen = 1
  /\ Len(chans[gen].up) = ChanCap
  /\ last.op = "uploadOrUpdateFile"
  /\ last.err = "nil"
  /\ reqs[Len(reqs)].kind = "upload"
  /\ reqs[Len(reqs)].snd = "send"
  /\ \A i \in 1..Len(reqs) : reqs[i].tsk = "new"

\* Remote paths the validation has to turn away: the empty one and those
\* that do not begin with the separator.
BadPaths == { p \in RemotePaths : Len(p) = 0 \/ p[1] # "/" }

\* A call of an operation that takes the remote path p, its other arguments
\* acceptable: an existing local file, nothing at the local download path, an
\* absolute second path.
PathCall(p) ==
  \/ \E l \in LocalFiles : UploadFile(l, p) \/ UpdateFile(l, p) \/ RepairFile(l, p)
  \/ DownloadFile("absent", p)
  \/ ListDir(p)
  \/ GetFileMeta(p)
  \/ GetFileStats(p)
  \/ DeleteFile(p)
  \/ RenameObject(p, <<"n">>)
  \/ CopyObject(p, <<"/", "r">>)
  \/ CopyObject(<<"/", "r">>, p)
  \/ GetAuthTicketForShare(p)

\* C11: every operation that takes a remote path rejects an empty path and a
\* path that does not begin with the separator with InvalidPath, before any
\* request is enqueued and before any blobber is contacted.  Stated for an
\* allocation on which the earlier tests (initialized, not under repair,
\* more than one blobber) pass: no such call can end in anything else.
C11_BadPathRejected ==
  (isInitialized /\ ~underRepair /\ Blobbers > 1) =>
    \A p \in BadPaths :
      ~ENABLED (PathCall(p)
                  /\ ~(CallStep /\ last'.err = "invalid_path" /\ DidNothing))

\* What a call can return before it gets to the blobber count.
EarlierErrors ==
  { "notInitialized", "underRepair", "invalid_path", "auth_ticket_decode_error",
    "local_path_not_dir", "local_file_exists" }

ListAndDownloadOps ==
  { "ListDir", "ListDirFromAuthTicket", "downloadFile", "downloadFromAuthTicket" }

\* C12: every listing and every download operation on an allocation with
\* len(Blobbers) <= 1 is rejected with NoBlobbers (or with the error of an
\* earlier validation), enqueues no request and contacts no blobber.
C12_FewBlobbersRejected ==
  [][(Blobbers <= 1 /\ NewCall /\ last'.op \in ListAndDownloadOps) =>
       (last'.err \in EarlierErrors \cup { "noBLOBBERS" } /\ DidNothing)]_vars

\* Bit b of the mask x.
Bit(x, b) == (x \div Pow2(b)) % 2

\* C20: the upload request of a detected repair with found mask F on N
\* blobbers has uploadMask = (NOT F) AND allOnes(N): bit b is set exactly
\* when b < N and F does not have it.
C20_MaskIsComplement ==
  [][(CallStep /\ last'.op = "RepairFile" /\ last'.err = "nil") =>
       LET r == reqs'[Len(reqs')]
           F == last'.cons.found
       IN  /\ Len(reqs') = Len(reqs) + 1
           /\ r.isRepair
           /\ r.mask <= AllOnes(Blobbers)
           /\ \A b \in 0..(Blobbers - 1) : Bit(r.mask, b) = 1 - Bit(F, b)]_vars

\* On four blobbers the list read found the object on blobbers 0 and 2, and
\* the repair request targets blobbers 1 and 3.
C20_Witness ==
  /\ Blobbers = 4
  /\ last.op = "RepairFile"
  /\ last.err = "nil"
  /\ last.cons.found = 5
  /\ Len(reqs) > 0
  /\ reqs[Len(reqs)].isRepair
  /\ reqs[Len(reqs)].mask = 10

FileMetaOps == { "GetFileMeta", "GetFileMetaFromAuthTicket" }

\* C15: GetFileMeta and GetFileMetaFromAuthTicket hand back, for the
\* reference the list read selected, metadata whose hash, size and mime type
\* are the reference's actual file hash, actual file size and mime type; when
\* the read selects no reference they return an error and no metadata.
C15_MetaPreservesRef ==
  [][(NewCall /\ last'.op \in FileMetaOps /\ last'.net) =>
       IF last'.ref = NilRef
         THEN last'.err = "file_meta_error" /\ last'.meta = NilMeta
         ELSE /\ last'.err = "nil"
              /\ last'.meta.Hash = last'.ref.ActualFileHash
              /\ last'.meta.Size = last'.ref.ActualFileSize
              /\ last'.meta.MimeType = last'.ref.MimeType]_vars

\* Metadata was handed back for a reference whose stored content differs in
\* hash and size from the file.
C15_Witness ==
  /\ last.op \in FileMetaOps
  /\ last.err = "nil"
  /\ last.ref \in FileRefs
  /\ last.ref.Hash # last.ref.ActualFileHash
  /\ last.ref.Size # last.ref.ActualFileSize
  /\ last.meta.Hash = last.ref.ActualFileHash
  /\ last.meta.Size = last.ref.ActualFileSize

\* Operations of the calling task that read or write the progress maps or
\* the underRepair flag and nothing else.
SharedStateOps == { "CancelUpload", "CancelDownload", "UpdateRepairStatus" }

\* C16: every access to the progress maps and to underRepair is made while
\* holding the allocation's mutex, so no two accesses overlap: when the
\* calling task makes such an access, no other goroutine is inside its
\* critical section.
C16_AccessUnderMutex ==
  [][(NewCall /\ last'.op \in SharedStateOps) =>
       \A i \in 1..Len(reqs) : reqs[i].mx = 0]_vars

\* C17: once the allocation's context has been cancelled, its dispatcher
\* takes no further upload or download request off the queues, even when
\* requests are waiting at that moment.  Stated for the allocation
\* initialized once, whose only dispatcher has that context.
C17_NoDequeueAfterCancel ==
  [][(Len(disp) = 1 /\ chans[1].done) =>
       /\ Len(chans'[1].up) >= Len(chans[1].up)
       /\ Len(chans'[1].down) >= Len(chans[1].down)]_vars

\* C18: the dispatcher hands each request it receives to a task of its own
\* and never waits for one: whenever a request is waiting on the channels a
\* live dispatcher selects on, the dispatcher can receive it, whatever tasks
\* are still running, and receiving it leaves every running task running.
C18_DispatchNeverWaits ==
  /\ [](\A d \in 1..Len(disp) :
          disp[d] # 0 =>
            /\ Len(chans[disp[d]].up) > 0 => ENABLED DispatchUpload(d)
            /\ Len(chans[disp[d]].down) > 0 => ENABLED DispatchDownload(d))
  /\ [][\A i \in 1..Len(reqs) :
          (reqs[i].tsk = "new" /\ reqs'[i].tsk = "running") =>
            \A j \in 1..Len(reqs) : j # i => reqs'[j] = reqs[j]]_vars

\* The only dispatcher has received two requests, and the task of the first
\* was still running when it received the second.
C18_Witness ==
  /\ Len(disp) = 1
  /\ Len(reqs) >= 2
  /\ \A i \in 1..Len(reqs) : reqs[i].tsk = "running"

\* The progress-map entry under the key of request i, in the maps up, down.
EntryOfReq(i, up, down) ==
  IF reqs[i].kind = "upload" THEN up[reqs[i].key] ELSE down[reqs[i].key]

\* The requests the channels of the latest generation hold, as a set.
Queued(ch) ==
  { ch[gen].up[k] : k \in 1..Len(ch[gen].up) } \cup
  { ch[gen].down[k] : k \in 1..Len(ch[gen].down) }

C13_Quorum ==
  \A i \in 1..Len(reqs) :
    LET r == reqs[i]
        N == DataShards + ParityShards
    IN
    /\ r.consensusThresh.num * N = 100 * DataShards * r.consensusThresh.den
    /\ ~r.isRepair => r.fullconsensus = N
    /\ (r.tsk = "running" /\ MutexFree) =>
         \A count \in 0..PopCount(r.mask) :
           LET ok == ENABLED (ProcessDone(i, count) /\ reqs'[i].commit = "ok")
               ko == ENABLED (ProcessDone(i, count)
                                /\ reqs'[i].commit = "consensus_not_reached")
           IN
           /\ ok # ko
           /\ ok <=> (100 * count * N >= 100 * DataShards * r.fullconsensus)
           /\ ~r.isRepair => (ok <=> count >= DataShards)
           /\ (~r.isRepair /\ DataShards = 2 /\ ParityShards = 2
                 /\ count \in { 2, 3 }) => ok
           /\ (~r.isRepair /\ DataShards = 3 /\ ParityShards = 1 /\ count = 2) => ko

\* On three data and one parity shard an upload to all four blobbers has
\* ended without its quorum.
C13_Witness ==
  /\ DataShards = 3
  /\ ParityShards = 1
  /\ \E i \in 1..Len(reqs) :
       /\ ~reqs[i].isRepair
       /\ reqs[i].mask = AllOnes(4)
       /\ reqs[i].tsk = "finished"
       /\ reqs[i].commit = "consensus_not_reached"

\* Every bit of the mask m is a bit of the mask full.
SubMask(m, full) == AndNot(full, m) = 0

\* C21: every operation mask placed in a request (the upload mask of fresh
\* and repair uploads, the download mask) is a subset of the all-ones mask
\* (1 << len(Blobbers)) - 1 of the blobber count, and the mask of a fresh
\* upload and of a download equals that all-ones mask.
C21_MaskWithinAllOnes ==
  \A i \in 1..Len(reqs) :
    /\ reqs[i].mask \in 0..(Pow2(Blobbers) - 1)
    /\ SubMask(reqs[i].mask, Pow2(Blobbers) - 1)
    /\ \A b \in 0..(Blobbers + 1) : Bit(reqs[i].mask, b) = 1 => b < Blobbers
    /\ ~reqs[i].isRepair =>
         /\ reqs[i].mask = Pow2(Blobbers) - 1
         /\ \A b \in 0..(Blobbers - 1) : Bit(reqs[i].mask, b) = 1

\* A repair request targets some of the blobbers and not all of them.
C21_Witness ==
  \E i \in 1..Len(reqs) :
    /\ reqs[i].isRepair
    /\ reqs[i].mask # 0
    /\ reqs[i].mask # Pow2(Blobbers) - 1
    /\ SubMask(reqs[i].mask, Pow2(Blobbers) - 1)

C23_QuorumMonotonic ==
  \A i \in 1..Len(last.oks), j \in 1..Len(last.oks) :
    (i <= j /\ last.oks[i]) => last.oks[j]

\* On two data and two parity shards and four blobbers the rule has been
\* applied to every count: it fails below two acknowledgements and passes
\* from two on.
C23_Witness ==
  /\ DataShards = 2 /\ ParityShards = 2 /\ Blobbers = 4
  /\ last.oks = << FALSE, FALSE, TRUE, TRUE, TRUE >>

\* C24: MoveObject returns success only if the copy succeeded and, after it,
\* the delete of the source succeeded: the delete is called exactly when the
\* copy returned no error; when the copy fails its error is returned and the
\* source is not touched; a failing delete makes MoveObject return that
\* error although the copy has taken effect.
C24_MoveIsCopyThenDelete ==
  [][(NewCall /\ last'.op = "MoveObject") =>
       LET m == last' IN
       /\ m.copy.called
       /\ m.del.called <=> (m.copy.err = "nil")
       /\ (m.err = "nil") <=>
            (m.copy.err = "nil" /\ m.del.called /\ m.del.err = "nil")
       /\ (m.copy.err # "nil") =>
            (m.err = m.copy.err /\ ~m.del.called /\ ~m.del.net)
       /\ (m.copy.err = "nil" /\ m.del.err # "nil") =>
            (m.err = m.del.err /\ m.copy.net)]_vars

\* A move has returned the error of its delete after its copy had run on the
\* blobbers and succeeded.
C24_Witness ==
  /\ last.op = "MoveObject"
  /\ last.err = "process_error"
  /\ last.copy.called /\ last.copy.net /\ last.copy.err = "nil"
  /\ last.del.called /\ last.del.net /\ last.del.err = "process_error"

\* C25: CommitMetaTransaction starts its commit task only with file metadata
\* present: a failed resolution (or any other error) starts no commit task,
\* and a commit task is never started with absent (nil) metadata.
C25_CommitHasMeta ==
  [][(NewCall /\ last'.op = "CommitMetaTransaction") =>
       /\ last'.task <=> (last'.err = "nil")
       /\ commitTasks' = commitTasks + (IF last'.task THEN 1 ELSE 0)
       /\ last'.task => last'.meta # NilMeta]_vars

\* Request i exists and its task has ended (having run its completion
\* callback); some entry of a progress map refers to request i.
Finished(i) == IsReq(i) /\ reqs[i].tsk = "finished"
Refers(i) ==
  \/ \E k \in LocalFiles : uploadProgressMap[k] = i
  \/ \E k \in DownloadKeys : downloadProgressMap[k] = i

\* C26: no progress-map entry outlives its request: once the task of an
\* accepted request has finished and run its completion callback, the
\* progress maps eventually and for good hold no entry referring to it,
\* however the registration and the callback interleave.
C26_NoStaleEntry ==
  \A i \in 1..MaxAsync : [](Finished(i) => <>[](~Refers(i)))

\* C27: a request that has been registered and has not completed is always
\* reachable for cancellation: its key maps to that very request in the
\* progress map until its own completion callback runs, also when another
\* request with the same key is accepted, registered or completed in the
\* meantime.  Stated for the allocation initialized once, whose progress
\* maps are never replaced.
C27_RegisteredReachable ==
  (gen <= 1) =>
    \A i \in 1..Len(reqs) :
      (reqs[i].snd = "done" /\ reqs[i].tsk # "finished") =>
        EntryOfReq(i, uploadProgressMap, downloadProgressMap) = i

\* C28: at most one repair is outstanding per allocation: while underRepair
\* is set (from the RepairFile call that set it to the next
\* UpdateRepairStatus(false)) no further repair upload request is built,
\* also when two RepairFile calls run concurrently.  The status is set only
\* by a RepairFile call here, so underRepair says that a repair was detected
\* and not cleared since.
C28_OneRepairAtATime ==
  [][(underRepair /\ Len(reqs') > Len(reqs)) =>
       ~reqs'[Len(reqs')].isRepair]_vars

\* The dispatcher goroutines that have not returned.
RunningDispatchers == { d \in 1..Len(disp) : disp[d] # 0 }

\* C29: in every reachable state at most one dispatcher task is running for
\* the allocation, and every request in flight (registered, its task not
\* ended) is in the allocation's current progress map, also after
\* InitAllocation has been called more than once.
C29_OneDispatcherOneMap ==
  /\ Cardinality(RunningDispatchers) <= 1
  /\ \A i \in 1..Len(reqs) :
       (reqs[i].snd = "done" /\ reqs[i].tsk # "finished") => Refers(i)

\* Request i has been taken off its channel, its task started, and its entry
\* written into the progress map.
Served(i) == IsReq(i) /\ reqs[i].tsk # "new" /\ reqs[i].snd = "done"

\* C30: while the allocation's context is not cancelled and scheduling is
\* fair, every upload or download request whose call returned success is
\* eventually dequeued by the dispatcher, has its task started and is
\* registered in the progress map: no accepted request stays queued or
\* unregistered for ever.
C30_AcceptedIsServed ==
  \A i \in 1..MaxAsync : [](IsReq(i) => <>Served(i))

DownloadOps == { "downloadFile", "downloadFromAuthTicket" }
ReadOps == { "ListDir", "GetFileMeta", "GetFileStats", "GetAuthTicket" }

\* While underRepair is true a new download call returns err and does
\* nothing else, and a new read-only call is not turned away with
\* UnderRepair: it goes on to its list read whenever its own validation
\* passes.
RepairGate(err) ==
  /\ (NewCall /\ last'.op \in DownloadOps) =>
       (last'.err = err /\ DidNothing)
  /\ (NewCall /\ last'.op \in ReadOps) =>
       /\ last'.err # "underRepair"
       /\ last'.op = "GetFileMeta" => last'.net
       /\ (last'.op \in { "ListDir", "GetFileStats" } /\ isInitialized
             /\ last'.err # "invalid_path") => last'.net

\* C31 as stated: while underRepair is true, the download operations
\* (DownloadFile, DownloadThumbnail and their auth-ticket variants) are
\* rejected with the UnderRepair error and enqueue nothing, whereas ListDir,
\* GetFileMeta, GetFileStats and GetAuthTicket are not rejected because of
\* underRepair.
C31_Original == [][underRepair => RepairGate("underRepair")]_vars

\* C31, amended: while underRepair is true the download operations are
\* rejected and enqueue nothing, with UnderRepair when isInitialized() holds
\* and with NotInitialized when it does not (that test comes first); the
\* four read-only operations are not rejected because of underRepair.
C31_DownloadsGatedReadsNot ==
  [][underRepair =>
       RepairGate(IF isInitialized THEN "underRepair" ELSE "notInitialized")]_vars

\* A download was turned away with UnderRepair while the repair request that
\* set the status is outstanding.
C31_Witness ==
  /\ underRepair
  /\ isInitialized
  /\ last.op \in DownloadOps
  /\ last.err = "underRepair"
  /\ \E i \in 1..Len(reqs) : reqs[i].isRepair /\ reqs[i].tsk # "finished"

=============================================================================
